---- MODULE Spec2Model ----
(***************************************************************************)
(* Model of CDTV_PS2Mouse_Joy.ino: the timer-1 driven CDTV infrared        *)
(* transmit engine and the INT0 driven PS/2 receive engine with its ring   *)
(* buffer and mouse packet decoder.                                        *)
(*                                                                         *)
(* Time base of the transmit engine: one timer-1 tick is 0.5 us (16 MHz    *)
(* clock, prescaler 8, bit CS11).  A phase of the output line lasts the    *)
(* number of ticks held in OCR1A when the phase starts; the off-by-one of  *)
(* the CTC counter and the interrupt latency are below this granularity.   *)
(***************************************************************************)
EXTENDS Integers, Sequences, FiniteSets, TLC

VARIABLES
  \* ---- infrared transmit engine -------------------------------------
  tx_state,        \* volatile uint8_t tx_state
  cdtv_ir_code,    \* volatile uint16_t cdtv_ir_code
  ir_data,         \* static uint16_t data of ISR(TIMER1_COMPA_vect)
  OCR1A,           \* timer-1 compare register: ticks of the running phase
  cs11,            \* TCCR1B bit CS11: timer 1 is counting
  irOn,            \* IRDATAPIN is an output: the 40 kHz carrier is on the line
  pc,              \* position of the foreground code in an arming function
  req,             \* which arming function was called last: none/code/repeat
  arg,             \* parameter "code" of the cdtv_send_code call
  armIrq,          \* the compare interrupt was served during the arming call
  trace,           \* phases <<carrier, ticks>> put on the line since arming
  nirq,            \* compare interrupts served since arming
  \* ---- PS/2 receive engine ------------------------------------------
  bitcount,        \* static uint8_t bitcount of ps2_recv_isr
  data,            \* static uint8_t data of ps2_recv_isr
  last,            \* static uint8_t last of ps2_recv_isr
  ps2_head,        \* volatile uint8_t ps2_head
  ps2_tail,        \* volatile uint8_t ps2_tail
  ps2_recv_buffer, \* uint8_t ps2_recv_buffer[16]
  ps2state,        \* static uint8_t ps2state of ps2_get_state
  \* ---- the PS/2 device and what the callers saw ----------------------
  clock,           \* low byte of millis() at the latest clock edge
  script,          \* frames the device sends: <<byte, number of edges>>
  dev_k,           \* index in script of the frame being sent (0: none yet)
  dev_pos,         \* clock edges of that frame sent so far
  fr,              \* what happened to the frame being sent
  stored,          \* bytes pushed onto the ring and not yet taken from it
  got,             \* value returned by the latest ps2_get_data
  gd_pc,           \* position of the foreground code in ps2_get_data
  gd_data,         \* local data of ps2_get_data
  mret,            \* value returned by the latest ps2_get_state
  macc,            \* packet the latest ps2_get_state accepted last, or <<>>
  mrem,            \* bytes the latest ps2_get_state took from the ring
  mnacc,           \* packets the latest ps2_get_state accepted
  lastacc,         \* packet accepted most recently by any call, or <<>>
  av_pc,           \* position of the foreground code in ps2_available
  av_tail,         \* value of ps2_tail that ps2_available loaded
  av_head,         \* value of ps2_head that ps2_available loaded
  avail,           \* value returned by the latest stepwise ps2_available
  \* ---- loop(), the joystick and the time --------------------------------
  time,            \* time since the start of the program, in timer-1 ticks
  t_arm,           \* time of the latest call of an arming function
  lp_pc,           \* position of the foreground code in loop()
  loop_last,       \* static unsigned long last of loop()
  loop_curr,       \* unsigned long curr of loop()
  cdtv_last_cmd,   \* static uint16_t cdtv_last_cmd of loop()
  joy_state,       \* uint16_t joy_state of loop()
  my_state,        \* uint16_t my_state of loop()
  smp,             \* what the latest sampling step of loop() saw and did
  calls,           \* the calls of arming functions: number, time, distance
  \* ---- ps2_write_byte, INT0 and the two PS/2 lines ----------------------
  wr_pc,           \* position of the foreground code in ps2_write_byte
  wr_data,         \* unsigned char data of ps2_write_byte
  wr_parity,       \* unsigned char parity of ps2_write_byte
  wr_i,            \* unsigned char i of ps2_write_byte
  wr_cnt,          \* uint16_t cnt of the await_pin_state call under way
  int0_en,         \* EIMSK bit INT0: the PS/2 clock interrupt is enabled
  intf0,           \* EIFR bit INTF0: a falling clock edge is pending
  clk_host_low,    \* PS2CLKPIN is an output driven low
  dat_host_low,    \* PS2DATAPIN is an output driven low
  dv_mode,         \* the device: "resp" answers the host, "any" does anything
  dv_n,            \* clock transitions the answering device has made
  polled,          \* the host has read the clock since the device's last transition
  wr_polls,        \* polls of the await_pin_state call under way
  wr_waits,        \* await_pin_state calls that returned in this call
  wr_seq,          \* values ps2_write_byte put on the data line, in order
  wr_obs,          \* what the polls saw of the clock since the data line was set
  wr_arg,          \* the argument of the call
  wr_allto,        \* every await_pin_state call of this call gave up
  edge             \* what became of the clock edges: see NoEdges

irvars == <<tx_state, cdtv_ir_code, ir_data, OCR1A, cs11, irOn, pc, req, arg,
            armIrq, trace, nirq>>

isrvars == <<bitcount, data, last>>

ringvars == <<ps2_head, ps2_tail, ps2_recv_buffer>>

devvars == <<clock, script, dev_k, dev_pos, fr>>

mghost == <<mrem, mnacc, lastacc>>

avvars == <<av_pc, av_tail, av_head, avail>>

ps2vars == <<isrvars, ringvars, devvars, ps2state, stored, got, gd_pc,
            gd_data, mret, macc, mghost, avvars>>

loopvars == <<time, t_arm, lp_pc, loop_last, loop_curr, cdtv_last_cmd,
             joy_state, my_state, smp, calls>>

wrvars == <<wr_pc, wr_data, wr_parity, wr_i, wr_cnt, int0_en, intf0,
           clk_host_low, dat_host_low, dv_mode, dv_n, polled, wr_polls,
           wr_waits, wr_seq, wr_obs, wr_arg, wr_allto, edge>>

extvars == <<loopvars, wrvars>>

vars == <<irvars, ps2vars, extvars>>

----------------------------------------------------------------------------
(* Fixed-width arithmetic                                                  *)

Bit(x, i) == (x \div (2^i)) % 2

Lo8(x) == x % 256

Hi8(x) == (x \div 256) % 256

\* ~x on a uint16_t
Not16(x) == 65535 - x

----------------------------------------------------------------------------
(* enum transmitstates                                                     *)

ir_idle == 0

ir_start == 1

ir_transmit == 2

ir_end_pulse_short == ir_transmit + 46

ir_end_pulse == ir_transmit + 48

ir_stop == ir_end_pulse + 1

ir_repeat == ir_stop + 1

\* Deadlines written to OCR1A, in ticks
START_TICKS == 18000

PAUSE_TICKS == 9000

REPEAT_PAUSE_TICKS == 4200

PULSE_TICKS == 800

ONE_TICKS == 2400

\* The 12-bit codes cdtv_send_code can be asked to send
AllCodes == 0 .. 4095

\* Codes requested after the first request of a run, and codes used when a
\* request may supersede a transmission: JOYSTICK_RIGHT, MOUSE_A, CODE_1
FewCodes == {2052, 128, 1}

----------------------------------------------------------------------------
(* ISR(TIMER1_COMPA_vect)                                                  *)

\* (data>>ss & 0x1) ? 2400 : 800 without the complement of the second half
GapTicksNoComplement(st, d) ==
  LET ss0 == (st - ir_transmit) \div 2
      ss  == IF ss0 >= 12 THEN ss0 - 12 ELSE ss0
  IN  IF Bit(d, ss) = 1 THEN ONE_TICKS ELSE PULSE_TICKS

\* The value of the static data once the odd sub-phase st has looked at it
DataAt(st, d) == IF st = ir_transmit + 25 THEN Not16(d) ELSE d

\* The gap written to OCR1A in the odd sub-phase st, data being d on entry
GapTicks(st, d) ==
  LET ss0 == (st - ir_transmit) \div 2
      ss  == IF ss0 >= 12 THEN ss0 - 12 ELSE ss0
  IN  IF Bit(DataAt(st, d), ss) = 1 THEN ONE_TICKS ELSE PULSE_TICKS

\* The compare interrupt can be taken: timer 1 counts, and the counter was
\* not just cleared by the arming function (a match needs at least 800 ticks
\* = 6400 CPU cycles, the rest of the function a few), nor was a match
\* already served during this call.
TimerCanFire ==
  /\ cs11
  /\ pc \in {"run", "code", "code2", "state", "ocr", "tcnt"}
  /\ ~armIrq

\* The phase the handler has just programmed is put on the line once the
\* foreground code is not inside an arming function.
Emit(on, ticks) ==
  trace' = IF pc = "run" THEN Append(trace, <<on, ticks>>) ELSE trace

AfterRepeatSkipsPulse == ir_stop

\* tx_state=ir_end_pulse; in the ir_repeat branch
AfterRepeat == ir_end_pulse

TimerISRStopKeepsTimer ==
  /\ irOn' = FALSE
  /\ tx_state' = ir_idle
  /\ UNCHANGED <<ir_data, OCR1A, trace, cs11>>

\* else if(tx_state==ir_stop)
TimerISRStop ==
  /\ irOn' = FALSE
  /\ cs11' = FALSE
  /\ tx_state' = ir_idle
  /\ UNCHANGED <<ir_data, OCR1A, trace>>

TimerISR ==
  /\ TimerCanFire
  /\ nirq' = nirq + 1
  /\ armIrq' = (pc # "run")
  /\ IF tx_state = ir_start THEN
       /\ irOn' = FALSE
       /\ ir_data' = cdtv_ir_code
       /\ OCR1A' = PAUSE_TICKS
       /\ tx_state' = (tx_state + 1) % 256
       /\ Emit(FALSE, PAUSE_TICKS)
       /\ UNCHANGED cs11
     ELSE IF tx_state >= ir_transmit /\ tx_state < ir_end_pulse THEN
       IF tx_state % 2 = 1 THEN
         /\ irOn' = FALSE
         /\ ir_data' = DataAt(tx_state, ir_data)
         /\ OCR1A' = GapTicks(tx_state, ir_data)
         /\ tx_state' = (tx_state + 1) % 256
         /\ Emit(FALSE, GapTicks(tx_state, ir_data))
         /\ UNCHANGED cs11
       ELSE
         /\ irOn' = TRUE
         /\ OCR1A' = PULSE_TICKS
         /\ tx_state' = (tx_state + 1) % 256
         /\ Emit(TRUE, PULSE_TICKS)
         /\ UNCHANGED <<ir_data, cs11>>
     ELSE IF tx_state = ir_end_pulse THEN
       /\ irOn' = TRUE
       /\ OCR1A' = PULSE_TICKS
       /\ tx_state' = (tx_state + 1) % 256
       /\ Emit(TRUE, PULSE_TICKS)
       /\ UNCHANGED <<ir_data, cs11>>
     ELSE IF tx_state = ir_stop THEN
       TimerISRStop
     ELSE IF tx_state = ir_repeat THEN
       /\ irOn' = FALSE
       /\ OCR1A' = REPEAT_PAUSE_TICKS
       /\ tx_state' = AfterRepeat
       /\ Emit(FALSE, REPEAT_PAUSE_TICKS)
       /\ UNCHANGED <<ir_data, cs11>>
     ELSE
       UNCHANGED <<irOn, ir_data, OCR1A, tx_state, trace, cs11>>
  /\ UNCHANGED <<cdtv_ir_code, pc, req, arg>>
  /\ UNCHANGED ps2vars

----------------------------------------------------------------------------
(* cdtv_send_code and cdtv_send_repeat, statement by statement.  The       *)
(* functions do not mask interrupts, so the compare interrupt can be       *)
(* served between any two statements while timer 1 is counting.            *)

CallSendCode(c) ==
  /\ pc = "run"
  /\ pc' = "code"
  /\ req' = "code"
  /\ arg' = c
  /\ armIrq' = FALSE
  /\ trace' = <<>>
  /\ UNCHANGED <<tx_state, cdtv_ir_code, ir_data, OCR1A, cs11, irOn, nirq>>
  /\ UNCHANGED ps2vars

CallSendRepeat ==
  /\ pc = "run"
  /\ pc' = "state"
  /\ req' = "repeat"
  /\ armIrq' = FALSE
  /\ trace' = <<>>
  /\ UNCHANGED <<tx_state, cdtv_ir_code, ir_data, OCR1A, cs11, irOn, nirq, arg>>
  /\ UNCHANGED ps2vars

\* cdtv_ir_code=code: two byte stores on the 8-bit CPU, in the order the
\* compiler chose; the handler can read the variable between them.
ArmWriteCodeByte ==
  /\ pc = "code"
  /\ pc' = "code2"
  /\ \E lowFirst \in BOOLEAN :
       cdtv_ir_code' = IF lowFirst
                       THEN Hi8(cdtv_ir_code) * 256 + Lo8(arg)
                       ELSE Hi8(arg) * 256 + Lo8(cdtv_ir_code)
  /\ UNCHANGED <<tx_state, ir_data, OCR1A, cs11, irOn, req, arg, armIrq,
                 trace, nirq>>
  /\ UNCHANGED ps2vars

ArmWriteCode ==
  /\ pc = "code2"
  /\ pc' = "state"
  /\ cdtv_ir_code' = arg
  /\ UNCHANGED <<tx_state, ir_data, OCR1A, cs11, irOn, req, arg, armIrq,
                 trace, nirq>>
  /\ UNCHANGED ps2vars

\* tx_state=ir_start; or tx_state=ir_repeat;
ArmWriteState ==
  /\ pc = "state"
  /\ pc' = "ocr"
  /\ tx_state' = IF req = "code" THEN ir_start ELSE ir_repeat
  /\ UNCHANGED <<cdtv_ir_code, ir_data, OCR1A, cs11, irOn, req, arg, armIrq,
                 trace, nirq>>
  /\ UNCHANGED ps2vars

\* OCR1A=18000;
ArmWriteOCR ==
  /\ pc = "ocr"
  /\ pc' = "tcnt"
  /\ OCR1A' = START_TICKS
  /\ UNCHANGED <<tx_state, cdtv_ir_code, ir_data, cs11, irOn, req, arg,
                 armIrq, trace, nirq>>
  /\ UNCHANGED ps2vars

\* TCNT1 = 0;
ArmResetTCNT ==
  /\ pc = "tcnt"
  /\ pc' = "ir"
  /\ UNCHANGED <<tx_state, cdtv_ir_code, ir_data, OCR1A, cs11, irOn, req,
                 arg, armIrq, trace, nirq>>
  /\ UNCHANGED ps2vars

\* IR_ENABLE();
ArmEnableIR ==
  /\ pc = "ir"
  /\ pc' = "cs"
  /\ irOn' = TRUE
  /\ UNCHANGED <<tx_state, cdtv_ir_code, ir_data, OCR1A, cs11, req, arg,
                 armIrq, trace, nirq>>
  /\ UNCHANGED ps2vars

\* TCCR1B |= (1 << CS11); and the return: the line now carries the phase
\* the registers describe.
ArmStartTimer ==
  /\ pc = "cs"
  /\ pc' = "run"
  /\ cs11' = TRUE
  /\ armIrq' = FALSE
  /\ trace' = <<<<irOn, OCR1A>>>>
  /\ nirq' = 0
  /\ UNCHANGED <<tx_state, cdtv_ir_code, ir_data, OCR1A, irOn, req, arg>>
  /\ UNCHANGED ps2vars

ArmStep ==
  \/ ArmWriteCodeByte
  \/ ArmWriteCode
  \/ ArmWriteState
  \/ ArmWriteOCR
  \/ ArmResetTCNT
  \/ ArmEnableIR
  \/ ArmStartTimer

----------------------------------------------------------------------------
(* The arming functions called while the engine is idle: timer 1 is        *)
(* stopped, no compare interrupt can come between their statements, and    *)
(* each call is one step.                                                  *)

cdtv_send_code(c) ==
  /\ pc = "run"
  /\ tx_state = ir_idle
  /\ cdtv_ir_code' = c
  /\ tx_state' = ir_start
  /\ OCR1A' = START_TICKS
  /\ irOn' = TRUE
  /\ cs11' = TRUE
  /\ req' = "code"
  /\ arg' = c
  /\ trace' = <<<<TRUE, START_TICKS>>>>
  /\ nirq' = 0
  /\ UNCHANGED <<ir_data, pc, armIrq>>
  /\ UNCHANGED ps2vars

cdtv_send_repeat ==
  /\ pc = "run"
  /\ tx_state = ir_idle
  /\ tx_state' = ir_repeat
  /\ OCR1A' = START_TICKS
  /\ irOn' = TRUE
  /\ cs11' = TRUE
  /\ req' = "repeat"
  /\ trace' = <<<<TRUE, START_TICKS>>>>
  /\ nirq' = 0
  /\ UNCHANGED <<cdtv_ir_code, ir_data, pc, armIrq, arg>>
  /\ UNCHANGED ps2vars

----------------------------------------------------------------------------
(* PS/2 receive engine: ring buffer                                        *)

\* (x) & 0xF
And15(x) == x % 16

ps2_available_unmasked(head, tail) == (tail - head) % 256

\* uint8_t avail = ps2_tail - ps2_head; return avail & 0xF;
ps2_available(head, tail) == And15((tail - head) % 256)

PushAlways(t_tail, head) == TRUE

\* if(t_tail != ps2_head): there is room for the completed byte
PushAllowed(t_tail, head) == t_tail # head

\* The ring holds 15 bytes
RingFull == And15(ps2_tail + 1) = ps2_head

\* uint8_t ps2_get_data(), statement by statement: the handler can run
\* between any two of them.  if(ps2_tail != ps2_head), or return 0
ps2_get_data_test ==
  /\ gd_pc = "call"
  /\ IF ps2_tail # ps2_head
     THEN gd_pc' = "read" /\ UNCHANGED got
     ELSE gd_pc' = "call" /\ got' = 0
  /\ UNCHANGED <<gd_data, ringvars, isrvars, devvars, ps2state, stored, mret,
                 macc, mghost, avvars>>
  /\ UNCHANGED irvars

ps2_get_data_read_next ==
  /\ gd_pc = "read"
  /\ gd_pc' = "adv"
  /\ gd_data' = ps2_recv_buffer[And15(ps2_head + 1)]
  /\ UNCHANGED <<got, ringvars, isrvars, devvars, ps2state, stored, mret,
                 macc, mghost, avvars>>
  /\ UNCHANGED irvars

\* data = ps2_recv_buffer[ps2_head];
ps2_get_data_read ==
  /\ gd_pc = "read"
  /\ gd_pc' = "adv"
  /\ gd_data' = ps2_recv_buffer[ps2_head]
  /\ UNCHANGED <<got, ringvars, isrvars, devvars, ps2state, stored, mret,
                 macc, mghost, avvars>>
  /\ UNCHANGED irvars

\* ps2_head = (ps2_head + 1) & 0xF; return data;
ps2_get_data_advance ==
  /\ gd_pc = "adv"
  /\ gd_pc' = "call"
  /\ ps2_head' = And15(ps2_head + 1)
  /\ got' = gd_data
  /\ stored' = IF stored = <<>> THEN <<>> ELSE Tail(stored)
  /\ UNCHANGED <<gd_data, ps2_tail, ps2_recv_buffer, isrvars, devvars,
                 ps2state, mret, macc,
                 mghost, avvars>>
  /\ UNCHANGED irvars

ps2_get_data ==
  \/ ps2_get_data_test
  \/ ps2_get_data_read
  \/ ps2_get_data_advance

\* uint8_t ps2_available(), load by load: uint8_t avail = ps2_tail -
\* ps2_head reads the two volatile bytes in the order the compiler chose,
\* and the handler can run between the loads.
ps2_available_load ==
  /\ av_pc = "call"
  /\ gd_pc = "call"
  /\ \E tailFirst \in BOOLEAN :
       IF tailFirst
       THEN av_pc' = "head" /\ av_tail' = ps2_tail /\ UNCHANGED av_head
       ELSE av_pc' = "tail" /\ av_head' = ps2_head /\ UNCHANGED av_tail
  /\ UNCHANGED <<avail, isrvars, ringvars, devvars, ps2state, stored, got,
                 gd_pc, gd_data, mret, macc, mghost>>
  /\ UNCHANGED irvars

\* the second load, and return avail & 0xF; the loaded values are dead
\* after the return
ps2_available_return ==
  /\ av_pc \in {"head", "tail"}
  /\ av_pc' = "call"
  /\ LET h == IF av_pc = "head" THEN ps2_head ELSE av_head
         t == IF av_pc = "tail" THEN ps2_tail ELSE av_tail
     IN  /\ av_head' = 0
         /\ av_tail' = 0
         /\ avail' = ps2_available(h, t)
  /\ UNCHANGED <<isrvars, ringvars, devvars, ps2state, stored, got, gd_pc,
                 gd_data, mret, macc, mghost>>
  /\ UNCHANGED irvars

ps2_available_steps ==
  \/ ps2_available_load
  \/ ps2_available_return

----------------------------------------------------------------------------
(* uint16_t ps2_get_state(): the mouse packet decoder                      *)

\* (int8_t) of a byte
S8(x) == IF x >= 128 THEN x - 256 ELSE x

\* (ps2status & 0xC) == 0x8
Aligned(status) == (status \div 4) % 4 = 2

MouseDecodeDyInverted(status, dx, dy) ==
  ((status % 4) * 64)
  + (IF S8(dx) > 0 THEN 4 ELSE IF S8(dx) < 0 THEN 8 ELSE 0)
  + (IF S8(dy) < 0 THEN 32 ELSE IF S8(dy) > 0 THEN 16 ELSE 0)

\* ps2state = (ps2status & 0x3) << 6, then |= 0x4 / 0x8 by the sign of
\* ps2dx and |= 0x20 / 0x10 by the sign of ps2dy
MouseDecode(status, dx, dy) ==
  ((status % 4) * 64)
  + (IF S8(dx) > 0 THEN 4 ELSE IF S8(dx) < 0 THEN 8 ELSE 0)
  + (IF S8(dy) > 0 THEN 32 ELSE IF S8(dy) < 0 THEN 16 ELSE 0)

SkipMisalignedPacket(h) == And15(h + 3)

\* The head after ps2status = ps2_get_data() alone: a status byte that is
\* not aligned is the only byte the iteration takes
SkipMisaligned(h) == And15(h + 1)

\* while(ps2_available() >= 3): h is the head, st the value of ps2state, acc
\* the packet accepted last, g the byte ps2_get_data returned last and n the
\* number of packets accepted
RECURSIVE GetStateLoop(_, _, _, _, _)
GetStateLoop(h, st, acc, g, n) ==
  IF ps2_available(h, ps2_tail) >= 3
  THEN LET status == ps2_recv_buffer[h]
           dx     == ps2_recv_buffer[And15(h + 1)]
           dy     == ps2_recv_buffer[And15(h + 2)]
       IN  IF Aligned(status)
           THEN GetStateLoop(And15(h + 3), MouseDecode(status, dx, dy),
                             <<status, dx, dy>>, dy, n + 1)
           ELSE GetStateLoop(SkipMisaligned(h), st, acc, status, n)
  ELSE <<h, st, acc, g, n>>

ButtonsOnlySticky(st) == st

\* ps2state = ps2state & 0xC0;
ButtonsOnly(st) == (st \div 64) * 64

ps2_get_state ==
  LET r == GetStateLoop(ps2_head, ButtonsOnly(ps2state), <<>>, got, 0)
      n == (r[1] - ps2_head) % 16
  IN  /\ gd_pc = "call"
      /\ ps2_head' = r[1]
      /\ ps2state' = r[2]
      /\ mret' = r[2]
      /\ macc' = r[3]
      /\ got' = r[4]
      /\ stored' = SubSeq(stored, n + 1, Len(stored))
      /\ mrem' = n
      /\ mnacc' = r[5]
      /\ lastacc' = IF r[3] # <<>> THEN r[3] ELSE lastacc
      /\ UNCHANGED <<ps2_tail, ps2_recv_buffer, isrvars, devvars, gd_pc,
                     gd_data, avvars>>
      /\ UNCHANGED irvars

----------------------------------------------------------------------------
(* void ps2_recv_isr(): runs on every falling edge of the PS/2 clock.      *)

ShiftInMsbFirst(d, high) == ((d * 2) % 256) + (IF high THEN 1 ELSE 0)

\* data >>= 1; if(digitalRead(PS2DATAPIN) == HIGH) data |= 0x80;
ShiftIn(d, high) == (d \div 2) + (IF high THEN 128 ELSE 0)

\* if(curr-last > 5) bitcount = 0;  The two uint8_t operands are promoted
\* to int, so the difference is negative when the low byte of millis() has
\* wrapped since the previous edge.
Watchdog(curr, lst, bc) == IF curr - lst > 5 THEN 0 ELSE bc

\* The handler, curr being (uint8_t)millis() and high the level of the data
\* line; the last two conjuncts record what the callers of the ring and the
\* frame being sent (f: its record up to this edge) see of it.
ps2_recv_isr(curr, high, f) ==
  LET bc0    == Watchdog(curr, last, bitcount)
      d1     == ShiftIn(data, high)
      bc1    == (bc0 + 1) % 256
      t_tail == And15(ps2_tail + 1)
      push   == bc1 = 9 /\ PushAllowed(t_tail, ps2_head)
  IN  /\ last' = curr
      /\ data' = d1
      /\ bitcount' = IF bc1 = 11 THEN 0 ELSE bc1
      /\ IF push
         THEN /\ ps2_recv_buffer' = [ps2_recv_buffer EXCEPT ![ps2_tail] = d1]
              /\ ps2_tail' = t_tail
         ELSE UNCHANGED <<ps2_recv_buffer, ps2_tail>>
      /\ UNCHANGED ps2_head
      /\ stored' = IF push THEN Append(stored, d1) ELSE stored
      /\ fr' = [f EXCEPT !.push = IF push THEN @ + 1 ELSE @,
                         !.val  = IF push THEN d1 ELSE @,
                         !.drop = @ \/ (bc1 = 9 /\ ~push)]

----------------------------------------------------------------------------
(* The PS/2 device: it sends the frames of script one after the other,     *)
(* each as clock edges with the data line at the level of the frame's bit. *)

Ones(b) == Bit(b, 0) + Bit(b, 1) + Bit(b, 2) + Bit(b, 3)
         + Bit(b, 4) + Bit(b, 5) + Bit(b, 6) + Bit(b, 7)

\* Level of the data line at edge p (1..11) of the frame of byte b: start
\* bit 0, the data bits LSB first, odd parity, stop bit 1
DevLevel(b, p) ==
  IF p = 1 THEN FALSE
  ELSE IF p <= 9 THEN Bit(b, p - 2) = 1
  ELSE IF p = 10 THEN Ones(b) % 2 = 0
  ELSE TRUE

\* The frame being sent is over (or none was started)
FrameOver == dev_k = 0 \/ dev_pos = script[dev_k][2]

DevCanSend == ~FrameOver \/ dev_k < Len(script)

NoFrame == [bc0 |-> 0, gap0 |-> 0, gap |-> 0, slow |-> FALSE, room |-> TRUE,
            push |-> 0, val |-> -1, drop |-> FALSE]

\* The next clock edge, g ms after the previous one (after the start of the
\* program for the first edge), and the handler it triggers.
DevEdge(g) ==
  /\ DevCanSend
  /\ LET k   == IF FrameOver THEN dev_k + 1 ELSE dev_k
         p   == IF FrameOver THEN 1 ELSE dev_pos + 1
         now == (clock + g) % 256
         f0  == IF FrameOver
                THEN [NoFrame EXCEPT !.bc0 = bitcount, !.gap0 = g, !.gap = g,
                                     !.room = ~RingFull]
                ELSE [fr EXCEPT !.gap = g, !.slow = @ \/ g > 5]
     IN  /\ dev_k' = k
         /\ dev_pos' = p
         /\ clock' = now
         /\ ps2_recv_isr(now, DevLevel(script[k][1], p), f0)
  /\ UNCHANGED <<script, ps2state, got, gd_pc, gd_data, mret, macc,
               mghost, avvars>>
  /\ UNCHANGED irvars

----------------------------------------------------------------------------
(* Time.  Timer 1 counts 2000 ticks per millisecond; the compare interrupt *)
(* of the running phase is due when the phases put on the line since the  *)
(* arming call have lasted their ticks.                                    *)

\* Timer-1 ticks per millisecond: 16 MHz / 8 (prescaler bit CS11)
TICKS_PER_MS == 2000

\* millis()
Millis == time \div TICKS_PER_MS

RECURSIVE SumTicks(_)
SumTicks(tr) == IF tr = <<>> THEN 0 ELSE tr[1][2] + SumTicks(Tail(tr))

\* Time at which TCNT1 reaches OCR1A
Due == t_arm + SumTicks(trace)

IsrDue == cs11 /\ time = Due

\* What no step of the engines changes
Rest == UNCHANGED extvars

\* ISR(TIMER1_COMPA_vect) at the time its compare match comes
TimedISR ==
  /\ IsrDue
  /\ TimerISR
  /\ Rest

\* Time passes, up to the next multiple of grain ticks or to the next
\* compare match, whichever comes first, while the foreground code is at
\* the top of loop() and no interrupt is waiting; until is the end of the
\* observation.
Advance(grain, until) ==
  /\ lp_pc = "top" /\ pc = "run"
  /\ ~IsrDue
  /\ LET g == ((time \div grain) + 1) * grain
         t == IF cs11 /\ Due < g THEN Due ELSE g
     IN  t <= until /\ time' = t
  /\ UNCHANGED <<t_arm, lp_pc, loop_last, loop_curr, cdtv_last_cmd,
                 joy_state, my_state, smp, calls>>
  /\ UNCHANGED <<irvars, ps2vars>>
  /\ UNCHANGED wrvars

----------------------------------------------------------------------------
(* joystick_get_state() and loop()                                         *)

\* uint8_t joy_s = (~PINC & 0x3F); return joy_s ? (0x800UL | joy_s) : 0;
\* Bit i of PINC is the level of pin Ai.
joystick_get_state(pinc) ==
  LET joy_s == 63 - (pinc % 64)
  IN  IF joy_s # 0 THEN 2048 + joy_s ELSE 0

NextLastCmdIfSent(my, lastcmd) == IF my # 0 THEN my ELSE lastcmd

\* cdtv_last_cmd = my_state; at the end of every sampling step
NextLastCmd(my, lastcmd) == my

NoSample == [n |-> 0, pins |-> 63, joy |-> 0, mouse |-> 0, state |-> 0,
             prev |-> 0, prev2 |-> 0, act |-> "none", prevact |-> "none",
             code |-> 0, ncalls |-> 0, pcalls |-> 0]

NoCalls == [n |-> 0, at |-> 0, gap |-> -1, ms |-> 0, msgap |-> -1,
            busy |-> FALSE]

SampleDueEarly(diff) == diff > 39

\* if(diff > 59)
SampleDue(diff) == diff > 59

\* unsigned long curr = millis(); diff = curr-last; if(diff > 59): the
\* sampling step starts with joystick_get_state(), pinc being the levels
\* of port C.  An iteration with diff <= 59 changes nothing.  The unsigned
\* 32-bit difference is the elapsed time as long as less than 2^32 ms
\* have passed since last was set.
LoopBegin(pinc) ==
  /\ lp_pc = "top" /\ pc = "run"
  /\ ~IsrDue
  /\ SampleDue(Millis - loop_last)
  /\ loop_curr' = Millis
  /\ joy_state' = joystick_get_state(pinc)
  /\ lp_pc' = "ps2"
  /\ smp' = [smp EXCEPT !.pins = pinc]
  /\ UNCHANGED <<time, t_arm, loop_last, cdtv_last_cmd, my_state, calls>>
  /\ UNCHANGED <<irvars, ps2vars>>
  /\ UNCHANGED wrvars

\* uint16_t ps2_state=ps2_get_state();
LoopGetState ==
  /\ lp_pc = "ps2"
  /\ ps2_get_state
  /\ lp_pc' = "disp"
  /\ UNCHANGED <<time, t_arm, loop_last, loop_curr, cdtv_last_cmd, joy_state,
                 my_state, smp, calls>>
  /\ UNCHANGED wrvars

\* my_state = joy_state ? joy_state : ps2_state; if(my_state) the call of
\* cdtv_send_code(my_state) or cdtv_send_repeat()
LoopDispatch ==
  /\ lp_pc = "disp"
  /\ LET my == IF joy_state # 0 THEN joy_state ELSE mret
     IN  /\ my_state' = my
         /\ IF my # 0
            THEN /\ IF my # cdtv_last_cmd
                    THEN CallSendCode(my)
                    ELSE CallSendRepeat
                 /\ lp_pc' = "send"
                 /\ t_arm' = time
                 /\ calls' = [n     |-> calls.n + 1,
                              at    |-> time,
                              gap   |-> IF calls.n = 0 THEN -1
                                        ELSE time - calls.at,
                              ms    |-> loop_curr,
                              msgap |-> IF calls.n = 0 THEN -1
                                        ELSE loop_curr - calls.ms,
                              busy  |-> tx_state # ir_idle]
            ELSE /\ lp_pc' = "end"
                 /\ UNCHANGED <<t_arm, calls>>
                 /\ UNCHANGED <<irvars, ps2vars>>
  /\ UNCHANGED <<time, loop_last, loop_curr, cdtv_last_cmd, joy_state, smp>>
  /\ UNCHANGED wrvars

\* The statements of the arming function that was called
LoopArm ==
  /\ lp_pc = "send"
  /\ ArmStep
  /\ Rest

\* last = curr; after the arming function has returned
LoopSent ==
  /\ lp_pc = "send" /\ pc = "run"
  /\ loop_last' = loop_curr
  /\ lp_pc' = "end"
  /\ UNCHANGED <<time, t_arm, loop_curr, cdtv_last_cmd, joy_state, my_state,
                 smp, calls>>
  /\ UNCHANGED <<irvars, ps2vars>>
  /\ UNCHANGED wrvars

\* An arming function was called in this sampling step: last = curr was
\* executed
Called == loop_last = loop_curr

\* cdtv_last_cmd = my_state; the sampling step is over.  smp counts the
\* sampling steps up to 3.
LoopEnd ==
  /\ lp_pc = "end"
  /\ cdtv_last_cmd' = NextLastCmd(my_state, cdtv_last_cmd)
  /\ lp_pc' = "top"
  /\ smp' = [n       |-> IF smp.n < 3 THEN smp.n + 1 ELSE 3,
             pins    |-> smp.pins,
             joy     |-> joy_state,
             mouse   |-> mret,
             state   |-> my_state,
             prev    |-> smp.state,
             prev2   |-> smp.prev,
             act     |-> IF Called THEN req ELSE "none",
             prevact |-> smp.act,
             code    |-> IF Called /\ req = "code" THEN cdtv_ir_code ELSE 0,
             ncalls  |-> calls.n,
             pcalls  |-> smp.ncalls]
  /\ UNCHANGED <<time, t_arm, loop_last, loop_curr, joy_state, my_state,
                 calls>>
  /\ UNCHANGED <<irvars, ps2vars>>
  /\ UNCHANGED wrvars

loop(pinc) ==
  \/ LoopBegin(pinc)
  \/ LoopGetState
  \/ LoopDispatch
  \/ LoopArm
  \/ LoopSent
  \/ LoopEnd

\* A clock edge of the PS/2 device at the present time
DevEdgeNow ==
  /\ DevEdge((Lo8(Millis) - clock) % 256)
  /\ Rest

\* State of loop() when it is first called: its statics are zero.
InitLoop ==
  /\ time = 0
  /\ t_arm = 0
  /\ lp_pc = "top"
  /\ loop_last = 0
  /\ loop_curr = 0
  /\ cdtv_last_cmd = 0
  /\ joy_state = 0
  /\ my_state = 0
  /\ smp = NoSample
  /\ calls = NoCalls

----------------------------------------------------------------------------
(* void ps2_write_byte(unsigned char data), statement by statement, with   *)
(* INT0 and the two open-collector lines.  A line is low when the host or  *)
(* the device drives it low; a falling edge of the clock line sets INTF0,  *)
(* and the handler runs when INTF0 and the INT0 bit of EIMSK are both set. *)

\* uint16_t cnt = 0xFFF;
AWAIT_CNT == 4095

AwaitNeverGiveUp(cnt) == FALSE

\* (digitalRead(pin) != state) && cnt--: the loop ends when cnt was 0
AwaitGiveUp(cnt) == cnt = 0

ClearIntf0Kept(flag) == flag

\* EIFR |= (1 << INTF0): writing the bit clears the flag
ClearIntf0(flag) == FALSE

\* The two bytes ps2_mouse_init writes: reset and enable
WriteBytes == {255, 244}

\* Clock transitions of a device that answers a request to send: 11 pulses
DevTransitions == 22

\* The clock edges: pend_hs, the pending flag holds an edge that came
\* between the masking of INT0 and the clearing of the flag; hs, such an
\* edge has come; runs, how often the handler ran; run_hs, the handler ran
\* for such an edge; run_in, the handler ran between the masking and the
\* return.
NoEdges == [pend_hs |-> FALSE, hs |-> FALSE, runs |-> 0, run_hs |-> FALSE,
            run_in |-> FALSE]

\* INT0 is masked and the flag is not yet cleared
InHandshake ==
  wr_pc \notin {"idle", "mask", "unmask", "done"}

\* Levels digitalRead can return for the clock and the data pin
ClkLevels ==
  IF clk_host_low THEN {0}
  ELSE IF dv_mode = "any" THEN {0, 1}
  ELSE IF dv_n % 2 = 1 THEN {0} ELSE {1}

\* The answering device holds the data line low for its acknowledge bit,
\* from the end of the tenth pulse to the end of the eleventh
DevDataLow == dv_mode = "resp" /\ dv_n \in {20, 21}

DatLevels ==
  IF dat_host_low THEN {0}
  ELSE IF dv_mode = "any" THEN {0, 1}
  ELSE IF DevDataLow THEN {0} ELSE {1}

\* A falling edge of the clock line is latched
Latch ==
  /\ intf0' = TRUE
  /\ edge' = [edge EXCEPT !.pend_hs = @ \/ InHandshake,
                          !.hs = @ \/ InHandshake]

WrLocals == <<wr_data, wr_parity, wr_i>>

WrGhost == <<wr_polls, wr_waits, wr_seq, wr_obs, wr_arg, wr_allto>>

\* A statement of the host that reads no line
HostStep == UNCHANGED <<dv_mode, dv_n, polled>>

\* The interrupt is served before the next statement of the foreground code
Foreground == ~(int0_en /\ intf0)

\* No writer step touches the transmit engine, the receive engine or loop()
WrFrame == UNCHANGED <<irvars, ps2vars, loopvars>>

\* The call
WrCall(d) ==
  /\ Foreground
  /\ wr_pc = "idle"
  /\ wr_pc' = "mask"
  /\ wr_data' = d
  /\ wr_parity' = 1
  /\ wr_i' = 0
  /\ wr_cnt' = AWAIT_CNT
  /\ wr_polls' = 0 /\ wr_waits' = 0 /\ wr_seq' = <<>>
  /\ wr_obs' = "none" /\ wr_arg' = d /\ wr_allto' = TRUE
  /\ HostStep
  /\ UNCHANGED <<int0_en, intf0, clk_host_low, dat_host_low, edge>>
  /\ WrFrame

\* EIMSK &= ~(1<<INT0);
WrMask ==
  /\ Foreground
  /\ wr_pc = "mask"
  /\ wr_pc' = "clklow"
  /\ int0_en' = FALSE
  /\ HostStep
  /\ UNCHANGED <<WrLocals, WrGhost, wr_cnt, intf0, clk_host_low,
                 dat_host_low, edge>>
  /\ WrFrame

\* pull_down(PS2CLKPIN); the line falls if it was high
WrClockLow ==
  /\ Foreground
  /\ wr_pc = "clklow"
  /\ wr_pc' = "datlow"
  /\ clk_host_low' = TRUE
  /\ \E lvl \in ClkLevels :
       IF lvl = 1 THEN Latch ELSE UNCHANGED <<intf0, edge>>
  /\ HostStep
  /\ UNCHANGED <<WrLocals, WrGhost, wr_cnt, int0_en, dat_host_low>>
  /\ WrFrame

\* delayMicroseconds(200); pull_down(PS2DATAPIN);
WrDataLow ==
  /\ Foreground
  /\ wr_pc = "datlow"
  /\ wr_pc' = "clkrel"
  /\ dat_host_low' = TRUE
  /\ HostStep
  /\ UNCHANGED <<WrLocals, WrGhost, wr_cnt, int0_en, intf0, clk_host_low,
                 edge>>
  /\ WrFrame

\* delayMicroseconds(10); weak_pullup(PS2CLKPIN); delayMicroseconds(10);
WrClockRelease ==
  /\ Foreground
  /\ wr_pc = "clkrel"
  /\ wr_pc' = "w_lo"
  /\ clk_host_low' = FALSE
  /\ HostStep
  /\ UNCHANGED <<WrLocals, WrGhost, wr_cnt, int0_en, intf0, dat_host_low,
                 edge>>
  /\ WrFrame

\* The positions inside await_pin_state, in the order of the calls
WaitPcs == {"w_lo", "w_hi", "b_lo", "b_hi", "p_hi", "p_lo", "s_hi", "s_lo",
            "a_clk", "a_dat"}

\* The pin an await_pin_state call reads
WaitsForData(p) == p = "a_dat"

\* The level an await_pin_state call waits for
WaitState(p) == IF p \in {"w_lo", "b_lo", "p_lo", "s_lo"} THEN 0 ELSE 1

\* The statement after an await_pin_state call
WaitNext(p) ==
  CASE p = "w_lo"  -> "w_hi"
    [] p = "w_hi"  -> "bit"
    [] p = "b_lo"  -> "b_hi"
    [] p = "b_hi"  -> "shift"
    [] p = "p_hi"  -> "p_lo"
    [] p = "p_lo"  -> "stop"
    [] p = "s_hi"  -> "s_lo"
    [] p = "s_lo"  -> "a_clk"
    [] p = "a_clk" -> "a_dat"
    [] p = "a_dat" -> "clear"

\* What the polls have seen of the clock since the data line was set, after
\* one more read of the clock
Observe(obs, lvl) ==
  IF lvl = 0 /\ obs = "none" THEN "low"
  ELSE IF lvl = 1 /\ obs = "low" THEN "lowhigh"
  ELSE obs

\* The answering device changes its clock between two polls of one wait,
\* or has made all its transitions
RespPolls == 2

\* One evaluation of (digitalRead(pin) != state) && cnt--
WrAwait ==
  /\ Foreground
  /\ wr_pc \in WaitPcs
  /\ \E lvl \in (IF WaitsForData(wr_pc) THEN DatLevels ELSE ClkLevels) :
       /\ wr_obs' = IF WaitsForData(wr_pc) THEN wr_obs
                     ELSE Observe(wr_obs, lvl)
       /\ IF lvl = WaitState(wr_pc) \/ AwaitGiveUp(wr_cnt)
          THEN /\ wr_pc' = WaitNext(wr_pc)
               /\ wr_cnt' = AWAIT_CNT
               /\ wr_polls' = 0
               /\ wr_waits' = wr_waits + 1
               /\ wr_allto' = (wr_allto /\ lvl # WaitState(wr_pc))
          ELSE /\ dv_mode = "resp" =>
                    (wr_polls < RespPolls \/ dv_n = DevTransitions)
               /\ wr_cnt' = (wr_cnt - 1) % 65536
               /\ wr_polls' = wr_polls + 1
               /\ UNCHANGED <<wr_pc, wr_waits, wr_allto>>
  /\ polled' = TRUE
  /\ UNCHANGED <<WrLocals, wr_seq, wr_arg, int0_en, intf0, clk_host_low,
                 dat_host_low, dv_mode, dv_n, edge>>
  /\ WrFrame

\* if(data & 0x01) weak_pullup(PS2DATAPIN); else pull_down(PS2DATAPIN);
WrBit ==
  /\ Foreground
  /\ wr_pc = "bit"
  /\ wr_pc' = "b_lo"
  /\ dat_host_low' = (wr_data % 2 = 0)
  /\ wr_seq' = Append(wr_seq, wr_data % 2)
  /\ wr_obs' = "none"
  /\ HostStep
  /\ UNCHANGED <<WrLocals, wr_cnt, wr_polls, wr_waits, wr_arg, wr_allto,
                 int0_en, intf0, clk_host_low, edge>>
  /\ WrFrame

\* parity = parity ^ (data & 0x01); data = data >> 1; i++, i < 8
WrShift ==
  /\ Foreground
  /\ wr_pc = "shift"
  /\ wr_parity' = (wr_parity + (wr_data % 2)) % 2
  /\ wr_data' = wr_data \div 2
  /\ wr_i' = wr_i + 1
  /\ wr_pc' = IF wr_i + 1 < 8 THEN "bit" ELSE "par"
  /\ HostStep
  /\ UNCHANGED <<WrGhost, wr_cnt, int0_en, intf0, clk_host_low,
                 dat_host_low, edge>>
  /\ WrFrame

\* if (parity) weak_pullup(PS2DATAPIN); else pull_down(PS2DATAPIN);
WrParity ==
  /\ Foreground
  /\ wr_pc = "par"
  /\ wr_pc' = "p_hi"
  /\ dat_host_low' = (wr_parity = 0)
  /\ wr_seq' = Append(wr_seq, wr_parity)
  /\ wr_obs' = "none"
  /\ HostStep
  /\ UNCHANGED <<WrLocals, wr_cnt, wr_polls, wr_waits, wr_arg, wr_allto,
                 int0_en, intf0, clk_host_low, edge>>
  /\ WrFrame

\* weak_pullup(PS2DATAPIN): the stop bit
WrStop ==
  /\ Foreground
  /\ wr_pc = "stop"
  /\ wr_pc' = "s_hi"
  /\ dat_host_low' = FALSE
  /\ HostStep
  /\ UNCHANGED <<WrLocals, WrGhost, wr_cnt, int0_en, intf0, clk_host_low,
                 edge>>
  /\ WrFrame

\* EIFR |= (1 << INTF0);
WrClear ==
  /\ Foreground
  /\ wr_pc = "clear"
  /\ wr_pc' = "unmask"
  /\ intf0' = ClearIntf0(intf0)
  /\ edge' = [edge EXCEPT !.pend_hs = @ /\ ClearIntf0(intf0)]
  /\ HostStep
  /\ UNCHANGED <<WrLocals, WrGhost, wr_cnt, int0_en, clk_host_low,
                 dat_host_low>>
  /\ WrFrame

\* EIMSK |= (1<<INT0); and the return
WrUnmask ==
  /\ Foreground
  /\ wr_pc = "unmask"
  /\ wr_pc' = "done"
  /\ int0_en' = TRUE
  /\ HostStep
  /\ UNCHANGED <<WrLocals, WrGhost, wr_cnt, intf0, clk_host_low,
                 dat_host_low, edge>>
  /\ WrFrame

\* The statements of ps2_write_byte after the call
WrStep ==
  \/ WrMask
  \/ WrClockLow
  \/ WrDataLow
  \/ WrClockRelease
  \/ WrAwait
  \/ WrBit
  \/ WrShift
  \/ WrParity
  \/ WrStop
  \/ WrClear
  \/ WrUnmask

\* The handler runs at most this often
MaxIsrRuns == 2

\* INT0: the handler runs for the pending edge, at the current value of
\* millis() and with the data line at any level it can have
Int0Serve ==
  /\ int0_en /\ intf0
  /\ edge.runs < MaxIsrRuns
  /\ \E lvl \in DatLevels : ps2_recv_isr(Lo8(Millis), lvl = 1, fr)
  /\ intf0' = FALSE
  /\ edge' = [edge EXCEPT !.runs = @ + 1,
                          !.pend_hs = FALSE,
                          !.run_hs = @ \/ edge.pend_hs,
                          !.run_in = @ \/ wr_pc \notin {"idle", "mask", "done"}]
  /\ UNCHANGED <<clock, script, dev_k, dev_pos, ps2state, got, gd_pc, gd_data,
                 mret, macc, mghost, avvars>>
  /\ UNCHANGED <<wr_pc, WrLocals, WrGhost, wr_cnt, int0_en, clk_host_low,
                 dat_host_low, dv_mode, dv_n, polled>>
  /\ UNCHANGED <<irvars, loopvars>>

\* The device pulls the clock low at a time of its own: while it does
\* anything, once INT0 is masked, and after the return
ClockFall ==
  /\ \/ dv_mode = "any" /\ wr_pc \notin {"idle", "mask"}
     \/ wr_pc = "done"
  /\ ~clk_host_low
  /\ ~intf0
  /\ edge.runs < MaxIsrRuns
  /\ Latch
  /\ UNCHANGED <<wr_pc, WrLocals, WrGhost, wr_cnt, int0_en, clk_host_low,
                 dat_host_low, dv_mode, dv_n, polled>>
  /\ WrFrame

\* The answering device makes the next transition of its 11 clock pulses
\* once the host has released the clock with the data line low
DevToggle ==
  /\ dv_mode = "resp"
  /\ wr_pc \in WaitPcs \cup {"bit", "shift", "par", "stop"}
  /\ polled
  /\ dv_n < DevTransitions
  /\ dv_n' = dv_n + 1
  /\ polled' = FALSE
  /\ IF dv_n % 2 = 0 THEN Latch ELSE UNCHANGED <<intf0, edge>>
  /\ UNCHANGED <<wr_pc, WrLocals, WrGhost, wr_cnt, int0_en, clk_host_low,
                 dat_host_low, dv_mode>>
  /\ WrFrame

\* Before the call: INT0 attached and enabled, both lines released
WriterIdle ==
  /\ wr_pc = "idle"
  /\ wr_data = 0
  /\ wr_parity = 1
  /\ wr_i = 0
  /\ wr_cnt = AWAIT_CNT
  /\ int0_en = TRUE
  /\ intf0 = FALSE
  /\ clk_host_low = FALSE
  /\ dat_host_low = FALSE
  /\ dv_n = 0
  /\ polled = TRUE
  /\ wr_polls = 0
  /\ wr_waits = 0
  /\ wr_seq = <<>>
  /\ wr_obs = "none"
  /\ wr_arg = 0
  /\ wr_allto = TRUE
  /\ edge = NoEdges

InitWriter == WriterIdle /\ dv_mode = "any"

InitExt == InitLoop /\ InitWriter

----------------------------------------------------------------------------
(* State after cdtv_init_transmitter: timer 1 in CTC mode with the         *)
(* prescaler off, OCR1A = 0xFFFF, output pin disabled.                     *)

InitIR ==
  /\ tx_state = 0
  /\ cdtv_ir_code = 0
  /\ ir_data = 0
  /\ OCR1A = 65535
  /\ cs11 = FALSE
  /\ irOn = FALSE
  /\ pc = "run"
  /\ req = "none"
  /\ arg = 0
  /\ armIrq = FALSE
  /\ trace = <<>>
  /\ nirq = 0

\* State after setup(): the statics are zero, the ring is empty, no clock
\* edge has come yet.
InitPS2 ==
  /\ bitcount = 0
  /\ data = 0
  /\ last = 0
  /\ ps2_head = 0
  /\ ps2_tail = 0
  /\ ps2_recv_buffer = [i \in 0 .. 15 |-> 0]
  /\ ps2state = 0
  /\ clock = 0
  /\ dev_k = 0
  /\ dev_pos = 0
  /\ fr = NoFrame
  /\ stored = <<>>
  /\ got = 0
  /\ gd_pc = "call"
  /\ gd_data = 0
  /\ mret = 0
  /\ macc = <<>>
  /\ mrem = 0
  /\ mnacc = 0
  /\ lastacc = <<>>
  /\ av_pc = "call"
  /\ av_tail = 0
  /\ av_head = 0
  /\ avail = 0

Init == InitIR /\ InitPS2 /\ InitExt /\ script = <<>>

\* Requests made only while the engine is idle.
NextIR ==
  \/ Rest /\ \E c \in (IF req = "none" THEN AllCodes ELSE FewCodes) :
               cdtv_send_code(c)
  \/ Rest /\ cdtv_send_repeat
  \/ Rest /\ TimerISR

SpecIR == Init /\ [][NextIR]_vars

\* Requests made at any time, also while a transmission is in flight.
NextSuper ==
  \/ Rest /\ \E c \in FewCodes : CallSendCode(c)
  \/ Rest /\ CallSendRepeat
  \/ Rest /\ ArmStep
  \/ Rest /\ TimerISR

SpecSuper == Init /\ [][NextSuper]_vars

----------------------------------------------------------------------------
(* Every byte value through the receiver: the device sends two whole       *)
(* frames back to back, the byte b and its complement, for every b; the    *)
(* first edge of a frame comes 1 or 250 ms after the previous edge, the    *)
(* other edges in the same millisecond or 5 ms later.                      *)

FrameScripts == {<<<<b, 11>>, <<255 - b, 11>>>> : b \in 0 .. 255}

FrameGaps == IF FrameOver THEN {1, 250} ELSE {0, 5}

InitFrame == InitIR /\ InitPS2 /\ InitExt /\ script \in FrameScripts

NextFrame == Rest /\ \E g \in FrameGaps : DevEdge(g)

SpecFrame == InitFrame /\ [][NextFrame]_vars

----------------------------------------------------------------------------
(* Loss of synchronisation: the device gives up a frame after 1..10 edges  *)
(* and sends a whole frame later.  The first edge comes at any value of    *)
(* the low byte of millis(), the edges within a frame 1 ms apart, the      *)
(* first edge of the second frame 6, 10 or 250 ms after the last edge of   *)
(* the frame given up.                                                     *)

ResyncScripts == {<<<<165, k>>, <<60, 11>>>> : k \in 1 .. 10}

ResyncGaps ==
  IF dev_k = 0 THEN 0 .. 255
  ELSE IF FrameOver THEN {6, 10, 250}
  ELSE {1}

InitResync == InitIR /\ InitPS2 /\ InitExt /\ script \in ResyncScripts

NextResync == Rest /\ \E g \in ResyncGaps : DevEdge(g)

SpecResync == InitResync /\ [][NextResync]_vars

----------------------------------------------------------------------------
(* The ring under load: the device sends RingFrames frames of distinct     *)
(* bytes, 1 ms from edge to edge, and ps2_get_data is called at any time,   *)
(* the handler running between any two of its statements.                  *)

RingFrames == 17

RingScript == [i \in 1 .. RingFrames |-> <<(i * 37) % 256, 11>>]

InitRing == InitIR /\ InitPS2 /\ InitExt /\ script = RingScript

NextRing ==
  \/ Rest /\ DevEdge(1)
  \/ Rest /\ ps2_get_data

SpecRing == InitRing /\ [][NextRing]_vars

\* The same load against a consumer that calls ps2_available and
\* ps2_get_data in any order, one call at a time, the handler running
\* between any two memory accesses of either.
NextSpsc ==
  \/ Rest /\ DevEdge(1)
  \/ Rest /\ ps2_available_steps
  \/ Rest /\ av_pc = "call" /\ ps2_get_data

SpecSpsc == InitRing /\ [][NextSpsc]_vars

----------------------------------------------------------------------------
(* One call of ps2_write_byte, with the reset or the enable command, to a  *)
(* device that answers with its 11 clock pulses or to one that does        *)
(* anything with the two lines at any time; the device is silent before    *)
(* the call and free to pull the clock low after it.                       *)

DevModes == {"any", "resp"}

InitWrite ==
  /\ InitIR /\ InitPS2 /\ InitLoop /\ script = <<>>
  /\ WriterIdle
  /\ dv_mode \in DevModes

NextWrite ==
  \/ \E d \in WriteBytes : WrCall(d)
  \/ WrMask
  \/ WrClockLow
  \/ WrDataLow
  \/ WrClockRelease
  \/ WrAwait
  \/ WrBit
  \/ WrShift
  \/ WrParity
  \/ WrStop
  \/ WrClear
  \/ WrUnmask
  \/ Int0Serve
  \/ ClockFall
  \/ DevToggle

SpecWrite == InitWrite /\ [][NextWrite]_vars

----------------------------------------------------------------------------
(* Mouse packets: the device sends one packet of three frames, 1 ms from   *)
(* edge to edge, and ps2_get_state is called at any time.                  *)

MouseStatus == {8 + 16 * h : h \in 0 .. 15} \cup {9, 10, 11, 0, 4, 12}

MouseDx == {0, 1, 5, 127, 128, 251, 255}

MouseDy == {0, 3, 127, 128, 253, 255}

MouseScripts ==
  {<<<<s, 11>>, <<x, 11>>, <<y, 11>>>> :
     s \in MouseStatus, x \in MouseDx, y \in MouseDy}

InitMouse == InitIR /\ InitPS2 /\ InitExt /\ script \in MouseScripts

NextMouse ==
  \/ Rest /\ DevEdge(1)
  \/ Rest /\ ps2_get_state

SpecMouse == InitMouse /\ [][NextMouse]_vars

----------------------------------------------------------------------------
(* Streams of mouse bytes: the device sends two packets, after a stray     *)
(* byte or not, 1 ms from edge to edge, and ps2_get_state is called at any *)
(* time.  Some status bytes are not aligned, some have a sign bit that     *)
(* differs from bit 7 of the delta byte, and one delta byte looks like an  *)
(* aligned status.                                                         *)

StreamPackets ==
  {<<8, 5, 253>>, <<9, 0, 0>>, <<10, 251, 3>>, <<4, 5, 3>>, <<24, 5, 0>>,
   <<40, 0, 3>>, <<8, 8, 8>>}

StreamStrays == {<<>>, <<0>>}

StreamScripts ==
  {[i \in 1 .. Len(x) + 6 |->
      <<IF i <= Len(x) THEN x[i]
        ELSE IF i <= Len(x) + 3 THEN p[i - Len(x)]
        ELSE q[i - Len(x) - 3], 11>>] :
     x \in StreamStrays, p \in StreamPackets, q \in StreamPackets}

InitStream == InitIR /\ InitPS2 /\ InitExt /\ script \in StreamScripts

NextStream ==
  \/ Rest /\ DevEdge(1)
  \/ Rest /\ ps2_get_state

SpecStream == InitStream /\ [][NextStream]_vars

----------------------------------------------------------------------------
(* loop() with the joystick and the mouse: the pins of port C have any of  *)
(* the levels of JoyPins at each sampling step, the device sends one mouse *)
(* packet or none, all of it within the first millisecond, and then time   *)
(* passes in steps of 30 ms (and up to each compare match) for LoopHorizon *)
(* ms.                                                                     *)

\* Levels of A0..A5: nothing asserted, then A0, A1, A2, A3 low alone
JoyPins == {63, 62, 61, 59, 55}

LoopScripts == {<<>>, <<<<9, 11>>, <<5, 11>>, <<253, 11>>>>}

LoopGrain == 30 * TICKS_PER_MS

LoopHorizon == 250

InitLoopSpec == InitIR /\ InitPS2 /\ InitExt /\ script \in LoopScripts

NextLoop ==
  \/ \E pinc \in JoyPins : loop(pinc)
  \/ TimedISR
  \/ DevEdgeNow
  \/ ~DevCanSend /\ Advance(LoopGrain, LoopHorizon * TICKS_PER_MS)

SpecLoop == InitLoopSpec /\ [][NextLoop]_vars

----------------------------------------------------------------------------
(* loop() against the clock: the joystick is idle, has A0 low or has all    *)
(* six pins low, loop()                                                    *)
(* runs at any half millisecond and at any compare match, for TimedHorizon *)
(* ms.                                                                     *)

TimedPins == {63, 62, 0}

FineGrain == TICKS_PER_MS \div 2

TimedHorizon == 125

NextTimed ==
  \/ \E pinc \in TimedPins : loop(pinc)
  \/ TimedISR
  \/ Advance(FineGrain, TimedHorizon * TICKS_PER_MS)

SpecTimed == Init /\ [][NextTimed]_vars

----------------------------------------------------------------------------
(* The frames of the CDTV protocol, as the header comment of the source    *)
(* gives them, in phases <<carrier, ticks>>.                               *)

IsPrefix(s, t) == Len(s) <= Len(t) /\ s = SubSeq(t, 1, Len(s))

\* Gap after the pulse of bit-phase i (0..23) of code c: bit-phases 12..23
\* carry the complement of bits 0..11.
FrameBit(c, i) == IF i < 12 THEN Bit(c, i) ELSE 1 - Bit(c, i - 12)

CodeFrame(c) ==
  [k \in 1 .. 51 |->
     IF k = 1 THEN <<TRUE, 18000>>
     ELSE IF k = 2 THEN <<FALSE, 9000>>
     ELSE IF k = 51 THEN <<TRUE, 800>>
     ELSE IF (k - 3) % 2 = 0 THEN <<TRUE, 800>>
     ELSE <<FALSE, IF FrameBit(c, (k - 3) \div 2) = 1 THEN 2400 ELSE 800>>]

RepeatFrame == <<<<TRUE, 18000>>, <<FALSE, 4200>>, <<TRUE, 800>>>>

\* C3: after cdtv_send_code(C) on an idle engine the line carries, phase by
\* phase, 9 ms carrier, 4.5 ms silence, the 12 bits of C LSB first, their
\* complement, and a closing 400 us pulse; at every moment of the
\* transmission what has been sent is the matching prefix of that frame,
\* and the engine ends idle with the carrier off after the whole frame.
C3_CodeFrame ==
  req = "code" =>
    /\ IsPrefix(trace, CodeFrame(arg))
    /\ cdtv_ir_code = arg
    /\ tx_state # ir_idle => Len(trace) = tx_state /\ irOn = trace[Len(trace)][1]
    /\ tx_state = ir_idle => trace = CodeFrame(arg) /\ ~irOn

\* A whole frame of code 0x804 (bits 2 and 11 set) has been sent.
C3_Witness ==
  /\ req = "code" /\ arg = 2052 /\ tx_state = ir_idle
  /\ Len(trace) = 51
  /\ trace[4] = <<FALSE, 800>> /\ trace[8] = <<FALSE, 2400>>
  /\ trace[28] = <<FALSE, 2400>> /\ trace[32] = <<FALSE, 800>>

\* C4: cdtv_send_repeat on an idle engine puts 9 ms carrier, 2.1 ms silence
\* and a 400 us pulse on the line, going ir_repeat -> ir_end_pulse ->
\* ir_stop -> ir_idle, and ends with the carrier off and CS11 cleared.
C4_RepeatFrame ==
  req = "repeat" =>
    /\ nirq <= 3
    /\ tx_state = <<ir_repeat, ir_end_pulse, ir_stop, ir_idle>>[nirq + 1]
    /\ IsPrefix(trace, RepeatFrame)
    /\ Len(trace) = IF nirq = 3 THEN 3 ELSE nirq + 1
    /\ tx_state # ir_idle => cs11 /\ irOn = trace[Len(trace)][1]
    /\ tx_state = ir_idle => trace = RepeatFrame /\ ~irOn /\ ~cs11

\* A repeat frame has run to its end.
C4_Witness ==
  req = "repeat" /\ tx_state = ir_idle /\ nirq = 3 /\ Len(trace) = 3

\* C5: a request made while a transmission is in flight is followed, from
\* the return of the arming function on, by the new frame and nothing else,
\* wherever the compare interrupt falls between the function's statements.
C5_SupersedeAtomic ==
  pc = "run" =>
    /\ req = "code" => IsPrefix(trace, CodeFrame(cdtv_ir_code))
    /\ req = "repeat" => IsPrefix(trace, RepeatFrame)

\* One compare interrupt of a transmission that is not superseded.
IrqStep == nirq' = nirq + 1

C6_StepOk ==
  /\ tx_state \in ir_start .. ir_repeat
  /\ tx_state' = IF tx_state = ir_repeat THEN ir_end_pulse
                 ELSE IF tx_state = ir_stop THEN ir_idle
                 ELSE tx_state + 1
  /\ tx_state # ir_stop =>
       /\ Len(trace') = Len(trace) + 1
       /\ OCR1A' = trace'[Len(trace')][2]
  /\ tx_state = ir_stop => trace' = trace /\ OCR1A' = OCR1A

\* C6: a transmission returns to ir_idle after exactly 51 interrupts (code)
\* or 3 (repeat); each interrupt moves tx_state one step along the path and,
\* but for the stop step, programs a new deadline; until the engine is idle
\* the next interrupt can come; tx_state stays in 0..52.
C6_Progress ==
  /\ [](tx_state \in 0 .. 52)
  /\ [](tx_state # ir_idle => ENABLED TimerISR)
  /\ []((tx_state = ir_idle /\ req = "code") => nirq = 51)
  /\ []((tx_state = ir_idle /\ req = "repeat") => nirq = 3)
  /\ [][IrqStep => C6_StepOk]_vars

\* A code frame has ended after 51 interrupts.
C6_Witness == req = "code" /\ tx_state = ir_idle /\ nirq = 51

\* C7: whenever tx_state is ir_idle the timer-1 prescaler is off and the
\* output pin is disabled, and from an idle engine no interrupt is served
\* and tx_state changes only by the state write of an arming function.
C7_IdleQuiet ==
  /\ [](tx_state = ir_idle => ~cs11 /\ ~irOn /\ ~ENABLED TimerISR)
  /\ [][tx_state = ir_idle =>
          /\ nirq' = nirq
          /\ tx_state' = ir_idle \/ pc = "state"]_vars

\* The stop state has run: the engine is idle again after a transmission.
C7_Witness ==
  tx_state = ir_idle /\ req # "none" /\ pc = "run" /\ nirq > 0 /\ ~cs11

----------------------------------------------------------------------------
(* Claims about the PS/2 receive engine                                    *)

\* Byte of the frame being sent
DevByte == script[dev_k][1]

\* C1: a frame whose first edge finds the bit counter at zero and the ring
\* not full, and whose edges are at most 5 ms apart, pushes nothing during
\* its first 8 edges, pushes its byte, once, at the 9th edge, and leaves the
\* bit counter at zero after the 11th; so does every frame that follows.
C1_RoundTrip ==
  (dev_k >= 1 /\ fr.bc0 = 0 /\ fr.room /\ ~fr.slow) =>
    /\ bitcount = dev_pos % 11
    /\ dev_pos < 9 => fr.push = 0
    /\ dev_pos >= 9 => fr.push = 1 /\ fr.val = DevByte
    /\ (fr.push = 1 /\ Len(stored) > 0) => stored[Len(stored)] = DevByte

\* The second of two back-to-back frames, of byte 0x5A, is complete; the low
\* byte of millis() wrapped while it was received.
C1_Witness ==
  /\ dev_k = 2 /\ dev_pos = 11 /\ DevByte = 90
  /\ fr.bc0 = 0 /\ fr.room /\ ~fr.slow
  /\ fr.push = 1 /\ fr.val = 90 /\ bitcount = 0
  /\ clock < 50

\* C2: an edge that comes more than 5 ms after the previous one finds the
\* bit counter reset (it is the first edge of a frame to the handler: the
\* counter is 1 after it), whatever the count and the clock were, and the
\* whole frame that starts with such an edge pushes exactly its own byte.
C2_Resync ==
  dev_k >= 1 =>
    /\ fr.gap > 5 => bitcount = 1
    /\ (dev_pos = 11 /\ fr.gap0 > 5 /\ fr.room /\ ~fr.slow) =>
         fr.push = 1 /\ fr.val = DevByte

\* C8: ps2_head and ps2_tail stay in 0..15 and ps2_available() is the number
\* of bytes pushed and not yet taken, never more than 15.
C8_Occupancy ==
  /\ ps2_head \in 0 .. 15
  /\ ps2_tail \in 0 .. 15
  /\ ps2_available(ps2_head, ps2_tail) = Len(stored)
  /\ ps2_available(ps2_head, ps2_tail) <= 15

\* The ring is full and the tail index has wrapped behind the head index.
C8_Witness == Len(stored) = 15 /\ ps2_tail < ps2_head

\* The handler completes a byte (its 9th edge)
ByteDone == bitcount' = 9 /\ bitcount # 9

\* Position in script of the frame that carries byte b
FrameOf(b) == CHOOSE i \in 1 .. Len(script) : script[i][1] = b

\* C9: a byte completed while the ring holds 15 is dropped: the indices and
\* every slot stay as they were; the slots from the head on hold the bytes
\* pushed and not yet taken, as they were pushed and in the order the device
\* sent them; and ps2_get_data takes the oldest of them each time.
C9_OverflowDropsNewest ==
  /\ [][(RingFull /\ ByteDone) =>
          /\ ps2_head' = ps2_head /\ ps2_tail' = ps2_tail
          /\ ps2_recv_buffer' = ps2_recv_buffer
          /\ stored' = stored /\ fr'.drop]_vars
  /\ [][ps2_head' # ps2_head =>
          stored # <<>> /\ got' = Head(stored) /\ stored' = Tail(stored)]_vars
  /\ [](\A i \in 1 .. Len(stored) :
          /\ ps2_recv_buffer[And15(ps2_head + i - 1)] = stored[i]
          /\ \E k \in 1 .. Len(script) : script[k][1] = stored[i]
          /\ i > 1 => FrameOf(stored[i - 1]) < FrameOf(stored[i]))

\* The 16th frame's byte was dropped on a full ring and the 15 bytes stored
\* before it have all been delivered since, the 15th last.
C9_Witness ==
  /\ dev_k = 16 /\ fr.drop /\ fr.push = 0
  /\ stored = <<>> /\ got = script[15][1]
  /\ ps2_head = 15 /\ ps2_tail = 15

\* The packet ps2_get_state accepted has aligned status, no button bit, a
\* positive dx and a negative dy
RightDownPacket ==
  /\ macc # <<>>
  /\ Aligned(macc[1]) /\ macc[1] % 4 = 0
  /\ S8(macc[2]) > 0 /\ S8(macc[3]) < 0

\* C10 as stated: such a packet makes ps2_get_state return the "right" flag
\* (0x04) and the "up" flag (0x20) with no button flag (0x40, 0x80).
C10_RightUp ==
  RightDownPacket =>
    /\ Bit(mret, 2) = 1 /\ Bit(mret, 5) = 1
    /\ Bit(mret, 6) = 0 /\ Bit(mret, 7) = 0

\* C10 as amended: such a packet makes ps2_get_state return the "right" flag
\* (0x04, CDTV_CODE_MOUSE_RIGHT) and the "down" flag (0x10,
\* CDTV_CODE_MOUSE_DOWN) and nothing else: no "up", no "left", no button.
C10_RightDown == RightDownPacket => mret = 4 + 16

\* The packet (0x28, +5, -3) has been decoded.
C10_Witness == macc = <<40, 5, 253>> /\ mret = 20 /\ stored = <<>>

----------------------------------------------------------------------------
(* Claims about the mouse packet decoder on streams of bytes               *)

\* What is left of the bytes q of the ring once packets are taken from its
\* front while three bytes are there: three bytes for an aligned status,
\* the status byte alone otherwise
RECURSIVE Drain(_)
Drain(q) ==
  IF Len(q) < 3 THEN q
  ELSE IF (q[1] \div 4) % 4 = 2 THEN Drain(SubSeq(q, 4, Len(q)))
  ELSE Drain(Tail(q))

\* C16 as stated: every call of ps2_get_state takes a multiple of three
\* bytes from the ring, a packet with a misaligned status included.
C16_WholePackets == mrem % 3 = 0

\* C16 as amended: ps2_get_state takes bytes only when three are there,
\* three for each packet it accepts and one, the status byte alone, for
\* each status that is not aligned, and stops with fewer than three left.
C16_PacketOrByte ==
  [][ps2_head' # ps2_head =>
       /\ Len(stored) >= 3
       /\ stored' = Drain(stored)
       /\ Len(stored') < 3
       /\ mrem' = Len(stored) - Len(stored')
       /\ mrem' >= 3 * mnacc']_vars

\* A call found a stray byte before a packet: it took the stray byte alone,
\* then the three bytes of the packet.
C16_Witness == mrem = 4 /\ mnacc = 1 /\ macc = <<8, 5, 253>> /\ stored = <<>>

\* C18: the packet a call accepted last has its left/right flag as bit 4
\* of the status byte gives the sign of a non-zero x delta, and its
\* up/down flag as bit 5 gives the sign of a non-zero y delta.
C18_SignBits ==
  mnacc >= 1 =>
    /\ macc[2] # 0 =>
          /\ Bit(mret, 3) = Bit(macc[1], 4)
          /\ Bit(mret, 2) = 1 - Bit(macc[1], 4)
    /\ macc[3] # 0 =>
          /\ Bit(mret, 4) = Bit(macc[1], 5)
          /\ Bit(mret, 5) = 1 - Bit(macc[1], 5)

\* (ps2status & 0x3) << 6 of a packet, 0 when there is none
Buttons(p) == IF p = <<>> THEN 0 ELSE (p[1] % 4) * 64

\* C20: a call that accepts no packet returns the button bits of the packet
\* accepted most recently by an earlier call and no direction bit; a call
\* that accepts packets returns the buttons and directions of the last one.
C20_NotSticky ==
  /\ mnacc = 0 => mret = Buttons(lastacc) /\ mret % 64 = 0
  /\ mnacc >= 1 =>
        /\ macc = lastacc
        /\ mret = MouseDecode(macc[1], macc[2], macc[3])
        /\ mret \div 64 = macc[1] % 4

\* A packet with a button and movement was accepted, and a later call, with
\* fewer than three bytes to take, returned the button alone.
C20_Witness ==
  /\ mnacc = 0 /\ lastacc = <<10, 251, 3>> /\ mret = 128
  /\ Len(stored) = 2

\* One call accepted both packets of the stream.
C20_TwoPackets == mnacc = 2 /\ macc = <<9, 0, 0>> /\ mret = 64


----------------------------------------------------------------------------
(* Claims about the ring shared by the handler and the foreground code     *)

\* The handler ran
IsrStep == dev_pos' # dev_pos \/ dev_k' # dev_k

\* The foreground code made a memory access of ps2_available or
\* ps2_get_data
ConsumerStep == gd_pc' # gd_pc \/ av_pc' # av_pc

\* C15: with the handler running between any two memory accesses of
\* ps2_available and ps2_get_data, the handler writes only ps2_tail and the
\* slot at the old tail, the foreground code writes only ps2_head,
\* ps2_available never counts a byte that is not in the ring, the byte
\* ps2_get_data has read is the oldest one stored until it returns it, and
\* each return takes that byte, once, in push order.
C15_Spsc ==
  /\ [][IsrStep =>
          /\ ps2_head' = ps2_head
          /\ \A i \in 0 .. 15 :
                i # ps2_tail => ps2_recv_buffer'[i] = ps2_recv_buffer[i]
          /\ IF ps2_tail' # ps2_tail
             THEN /\ ps2_tail' = And15(ps2_tail + 1)
                  /\ stored' = Append(stored, ps2_recv_buffer'[ps2_tail])
             ELSE ps2_recv_buffer' = ps2_recv_buffer /\ stored' = stored]_vars
  /\ [][ConsumerStep =>
          ps2_tail' = ps2_tail /\ ps2_recv_buffer' = ps2_recv_buffer]_vars
  /\ [][(av_pc # "call" /\ av_pc' = "call") =>
          avail' <= Len(stored') /\ avail' <= 15]_vars
  /\ [](gd_pc \in {"read", "adv"} => stored # <<>>)
  /\ [](gd_pc = "adv" => gd_data = Head(stored))
  /\ [][ps2_head' # ps2_head =>
          /\ gd_pc = "adv"
          /\ ps2_head' = And15(ps2_head + 1)
          /\ got' = Head(stored) /\ stored' = Tail(stored)]_vars

\* ps2_available has loaded ps2_tail and not yet ps2_head, and the handler
\* has pushed a byte between the two loads, the tail index wrapping to
\* slot 0.
C15_Witness ==
  /\ av_pc = "head" /\ av_tail = 15 /\ ps2_tail = 0
  /\ ps2_head = 3 /\ Len(stored) = 13

----------------------------------------------------------------------------
(* Claims about loop() and the joystick                                    *)

\* A sampling step of loop() is over
Sampled == lp_pc = "top" /\ smp.n > 0

\* C11: a sampling step whose combined state is zero calls nothing; one
\* whose state is non-zero and differs from the state of the step before
\* calls cdtv_send_code with it, once; one whose state is non-zero and the
\* same calls cdtv_send_repeat, once; so a repeat follows a step that sent a
\* code or a repeat for the same state.
C11_Dispatch ==
  Sampled =>
    /\ smp.state = (IF smp.joy # 0 THEN smp.joy ELSE smp.mouse)
    /\ smp.state = 0 => smp.act = "none" /\ smp.ncalls = smp.pcalls
    /\ (smp.state # 0 /\ smp.state # smp.prev) =>
         smp.act = "code" /\ smp.code = smp.state
    /\ (smp.state # 0 /\ smp.state = smp.prev) => smp.act = "repeat"
    /\ smp.state # 0 => smp.ncalls = smp.pcalls + 1
    /\ smp.act = "repeat" =>
         smp.prevact \in {"code", "repeat"} /\ smp.prev = smp.state

\* The joystick went from a state to nothing and back to the same state:
\* the third sampling step sent the full code again.
C11_Witness ==
  /\ Sampled /\ smp.n = 3
  /\ smp.prev2 = smp.state /\ smp.prev = 0 /\ smp.state # 0
  /\ smp.act = "code" /\ smp.prevact = "none"

\* Two sampling steps in a row saw the mouse button alone: a repeat
\* followed the code.
C11_Repeat ==
  /\ Sampled /\ smp.joy = 0 /\ smp.state = 64
  /\ smp.act = "repeat" /\ smp.prevact = "code"

\* C19: with one direction asserted alone on its pin (A0 right, A1 left, A2
\* down, A3 up) joystick_get_state returns CDTV_CODE_JOYSTICK_RIGHT 0x804,
\* _LEFT 0x808, _DOWN 0x810, _UP 0x820, and that code is the one sent; with
\* nothing asserted it returns 0; a non-zero joystick state is the state
\* sent, whatever the mouse state is.
C19_JoystickTable ==
  Sampled =>
    /\ smp.pins = 62 => smp.joy = 2052
    /\ smp.pins = 61 => smp.joy = 2056
    /\ smp.pins = 59 => smp.joy = 2064
    /\ smp.pins = 55 => smp.joy = 2080
    /\ smp.pins = 63 => smp.joy = 0
    /\ smp.joy # 0 => smp.state = smp.joy
    /\ (smp.joy # 0 /\ smp.act = "code") => smp.code = smp.joy

\* C17 as stated: two consecutive calls of the arming functions are at
\* least 60 ms apart, a code frame lasts 85400 ticks and a repeat frame
\* 23000, and the engine is idle at every call.
C17_SixtyApart ==
  /\ calls.n >= 2 => calls.gap >= 60 * TICKS_PER_MS
  /\ ~calls.busy
  /\ (tx_state = ir_idle /\ pc = "run" /\ req = "code") =>
       SumTicks(trace) = 85400
  /\ (tx_state = ir_idle /\ pc = "run" /\ req = "repeat") =>
       SumTicks(trace) = 23000

\* C17 as amended: the values of millis() read for two consecutive calls
\* differ by at least 60, the calls themselves are more than 59 ms apart, a
\* code frame lasts 85400 ticks and a repeat frame 23000, every frame is
\* over before the next call, and the engine is idle at every call.
C17_NoOverlap ==
  /\ calls.n >= 2 =>
       calls.msgap >= 60 /\ calls.gap > 59 * TICKS_PER_MS
  /\ ~calls.busy
  /\ (tx_state = ir_idle /\ pc = "run" /\ req = "code") =>
       SumTicks(trace) = 85400
  /\ (tx_state = ir_idle /\ pc = "run" /\ req = "repeat") =>
       SumTicks(trace) = 23000
  /\ tx_state # ir_idle => time - t_arm <= 85400
  /\ (tx_state # ir_idle /\ lp_pc = "top") => time - calls.at < 59 * TICKS_PER_MS

\* The second call came 59.5 ms after the first, on an idle engine.
C17_Witness ==
  /\ calls.n = 2 /\ calls.gap = 119 * FineGrain /\ calls.msgap = 60
  /\ ~calls.busy /\ tx_state = ir_repeat /\ pc = "run"

\* The number of await_pin_state calls in ps2_write_byte
WAITS == 24

\* C12: INT0 is masked whenever the host drives the clock low, the handler
\* never runs between the masking of INT0 and the return, no handler run is
\* caused by a clock edge latched between the masking and the clearing of
\* the flag, no such edge is pending once the flag is cleared, and INT0 is
\* enabled after the return, whatever the waits saw.
C12_Suspended ==
  /\ clk_host_low => ~int0_en
  /\ InHandshake => ~int0_en
  /\ ~edge.run_in
  /\ ~edge.run_hs
  /\ wr_pc \in {"unmask", "done"} => ~edge.pend_hs
  /\ wr_pc = "done" => int0_en

\* Every wait gave up, a clock edge was latched while INT0 was masked, and
\* the handler has run once, for an edge that came after the flag was
\* cleared.
C12_Witness ==
  /\ wr_pc = "done" /\ wr_waits = WAITS /\ wr_allto
  /\ edge.hs /\ edge.runs = 1 /\ bitcount = 1

\* The position of the foreground code in ps2_write_byte as a number: the
\* statements in the order of the program text, the four of the loop body
\* once for every pass
WrPos ==
  CASE wr_pc = "idle"   -> 0
    [] wr_pc = "mask"   -> 1
    [] wr_pc = "clklow" -> 2
    [] wr_pc = "datlow" -> 3
    [] wr_pc = "clkrel" -> 4
    [] wr_pc = "w_lo"   -> 5
    [] wr_pc = "w_hi"   -> 6
    [] wr_pc = "bit"    -> 7 + 4 * wr_i
    [] wr_pc = "b_lo"   -> 8 + 4 * wr_i
    [] wr_pc = "b_hi"   -> 9 + 4 * wr_i
    [] wr_pc = "shift"  -> 10 + 4 * wr_i
    [] wr_pc = "par"    -> 39
    [] wr_pc = "p_hi"   -> 40
    [] wr_pc = "p_lo"   -> 41
    [] wr_pc = "stop"   -> 42
    [] wr_pc = "s_hi"   -> 43
    [] wr_pc = "s_lo"   -> 44
    [] wr_pc = "a_clk"  -> 45
    [] wr_pc = "a_dat"  -> 46
    [] wr_pc = "clear"  -> 47
    [] wr_pc = "unmask" -> 48
    [] wr_pc = "done"   -> 49

\* What is left of the call: the statements still to come, each weighing
\* more than a whole wait, and the polls left to the wait under way
WrRank == (49 - WrPos) * (AWAIT_CNT + 2) + wr_cnt

InCall == wr_pc \notin {"idle", "done"}

\* C14: whatever the lines do, a wait that is under way has made fewer than
\* 0x1000 polls without ending, so that it ends with poll 0x1000 at the
\* latest; whenever the call has not returned it has a next step, or the
\* answering device is about to change its clock; every step of the
\* foreground code brings the call nearer to the return, and it returns
\* after 24 waits.
C14_Returns ==
  /\ [](wr_polls < AWAIT_CNT + 1 /\ wr_polls + wr_cnt = AWAIT_CNT)
  /\ [](wr_waits <= WAITS /\ (wr_pc = "done" => wr_waits = WAITS))
  /\ [](InCall => (ENABLED WrStep) \/ (dv_mode = "resp" /\ ENABLED DevToggle))
  /\ [][wr_pc' # wr_pc \/ wr_cnt' # wr_cnt => WrRank' < WrRank]_vars

\* The call returned from a device that never gave a wait the level it
\* waited for: all 24 waits gave up, and no clock edge came.
C14_Witness ==
  /\ wr_pc = "done" /\ wr_waits = WAITS /\ wr_allto
  /\ dv_mode = "any" /\ ~edge.hs /\ edge.runs = 0

\* The nine values of the frame of byte d: the data bits, bit 0 first, and
\* the bit that makes the number of ones odd
FrameBits(d) ==
  <<Bit(d, 0), Bit(d, 1), Bit(d, 2), Bit(d, 3), Bit(d, 4), Bit(d, 5),
    Bit(d, 6), Bit(d, 7), (Ones(d) + 1) % 2>>

\* A step that takes one of the nine values off the data line: the next
\* value is put on it, or the line is released for the stop bit
DataReplaced ==
  \/ wr_seq # <<>> /\ wr_seq' # wr_seq
  \/ wr_pc = "stop" /\ wr_pc' = "s_hi"

\* C13: with the answering device, the values put on the data line are the
\* bits 0..7 of the argument and then the odd-parity bit, and none of the
\* nine is taken off the line before the polls have seen the clock low and
\* then high since it was put there.
C13_BitSequence ==
  /\ [](dv_mode = "resp" /\ WrPos > 39 => wr_seq = FrameBits(wr_arg))
  /\ [][dv_mode = "resp" /\ DataReplaced => wr_obs = "lowhigh"]_vars

\* The part of C13 that holds: the nine values and their order, and each of
\* the eight data bits stays on the line until the polls have seen the
\* clock low and then high.
C13_DataBits ==
  /\ [](WrPos > 39 => wr_seq = FrameBits(wr_arg))
  /\ [](Len(wr_seq) <= 9)
  /\ [][dv_mode = "resp" /\ wr_seq # <<>> /\ wr_seq' # wr_seq
          => wr_obs = "lowhigh"]_vars

\* The parity bit was taken off the line when the polls had seen the clock
\* low only: the device had made 19 of its 22 clock changes and was in the
\* low half of its tenth pulse.
C13_ParityCut ==
  /\ dv_mode = "resp" /\ wr_pc = "s_hi" /\ wr_obs = "low"
  /\ dv_n = 19 /\ ~dat_host_low /\ wr_arg = 244

====
